---- MODULE Spec2Model ----
(***************************************************************************)
(* Model of ble/env_sensing_temp/thermistor_app.c: the Bluetooth           *)
(* management callback with its one-time initialization, the periodic      *)
(* temperature timer callback with its notification gate, and the          *)
(* advertisement data builder.                                             *)
(*                                                                         *)
(* Every callback runs to completion on the stack's application thread,    *)
(* so each callback is one action.  What a callback asked of the stack     *)
(* and of the drivers is recorded in `calls` (the names, in call order),   *)
(* `sent` (the notification requests) and `log` (WICED_BT_TRACE lines).    *)
(***************************************************************************)
EXTENDS Integers, Sequences, FiniteSets, TLC

(***************************************************************************)
(* Bounds of the model.                                                    *)
(***************************************************************************)
\* Ticks explored between two changes of the subscription state.
MaxTicks == 3
\* Deliveries of BTM_ENABLED_EVT explored where the stack repeats the event.
MaxEnabled == 2

(***************************************************************************)
(* Values of the SDK headers used by the source.                           *)
(***************************************************************************)
GATT_CLIENT_CONFIG_NOTIFICATION == 1
BTM_BLE_GENERAL_DISCOVERABLE_FLAG == 2
BTM_BLE_BREDR_NOT_SUPPORTED == 4
UUID_SERVICE_ENVIRONMENTAL_SENSING == 6170
POLL_TIMER_IN_MS == 5000

\* Values generated into cycfg_gatt_db.c.
app_ess_temperature_len == 2
\* "Therm"
app_gap_device_name == <<84, 104, 101, 114, 109>>
app_gap_device_name_len == Len(app_gap_device_name)

\* The range of int16_t, the type of a reading.
Int16 == (-32768) .. 32767

\* Readings the sensor produces in the main specification.
Readings == {-1, 2350}

\* Connection ids the stack hands out (0 means "no connection").
ConnIds == {1, 2}

\* Values a client writes to the client characteristic configuration
\* descriptor: none, notification, indication, both.
ConfigValues == {0, 1, 2, 3}

\* The definitions FROM_BIT16_TO_8 of thermistor_util_functions.h can have: the
\* low or the high byte of the 16-bit value, as a uint8_t expression (sizeof 1)
\* or as an int expression (sizeof 4).
MacroKinds == {"u8_low", "u8_high", "int_low", "int_high"}

VARIABLES
    started,            \* application_start has registered the management callback
    macroKind,          \* which FROM_BIT16_TO_8 the build has
    sensor,             \* the value thermistor_read() returns now
    thermistor_conn_id,
    client_char_config, \* app_ess_temperature_client_char_config[0]
    app_ess_temperature,
    enabledCount,       \* BTM_ENABLED_EVT handled so far
    results,            \* what the stack returned to the fallible calls of the last callback
    gattRegistered,     \* thermistor_event_handler is registered with the stack
    dbLoaded,           \* gatt_database is loaded in the stack
    sensorInitialized,  \* thermistor_init has run
    timerArmed,         \* milli_seconds_timer is running
    armCount,           \* successful wiced_start_timer calls
    timerPeriod,        \* period it was started with
    advData,            \* advertisement elements the stack holds
    pairable,
    otaReady,
    advertising,
    handler,            \* the callback that ran last
    calls,              \* stack / driver calls it made, in order
    sent,               \* notification requests it issued
    log,                \* trace lines it printed
    status,             \* what thermistor_management_callback returned
    sendStatus,         \* what wiced_bt_gatt_send_notification returned to it
    tickPc,             \* where a tick stands when its reads and writes are taken one by one
    nTicks, nReads, nStores, nSends   \* since the subscription state last changed

vars == <<started, macroKind, sensor, thermistor_conn_id, client_char_config,
          app_ess_temperature, enabledCount, results, gattRegistered, dbLoaded,
          sensorInitialized, timerArmed, armCount, timerPeriod, advData,
          pairable, otaReady, advertising, handler, calls, sent, log, status,
          sendStatus, tickPc, nTicks, nReads, nStores, nSends>>

appVars == <<thermistor_conn_id, client_char_config, app_ess_temperature>>
stackVars == <<gattRegistered, dbLoaded, sensorInitialized, timerArmed, armCount,
               timerPeriod, advData, pairable, otaReady, advertising>>
countVars == <<nTicks, nReads, nStores, nSends>>

(***************************************************************************)
(* Helpers.                                                                *)
(***************************************************************************)
\* x & m for a one-bit mask m.
BitSet(x, m) == (x \div m) % 2 = 1

\* Position of the first occurrence of e in s, 0 if absent.
IndexOf(s, e) ==
    IF \E i \in 1..Len(s) : s[i] = e
    THEN CHOOSE i \in 1..Len(s) : s[i] = e /\ \A j \in 1..(i-1) : s[j] # e
    ELSE 0

Occurrences(s, e) == Cardinality({i \in 1..Len(s) : s[i] = e})

(***************************************************************************)
(* PayloadCodec: lines 289-290.  temperature is promoted to int; & 0xff    *)
(* keeps the low 8 bits of the two's-complement value, >> 8 is the         *)
(* arithmetic shift (floor division by 256).                               *)
(***************************************************************************)
EncodeSwapped(temperature) ==
    << (temperature \div 256) % 256, temperature % 256 >>

Encode(temperature) ==
    << temperature % 256, (temperature \div 256) % 256 >>

\* The peer's reading of the 2 bytes: little-endian signed 16 bit.
Decode(bytes) ==
    LET u == bytes[1] + 256 * bytes[2]
    IN  IF u >= 32768 THEN u - 65536 ELSE u

(***************************************************************************)
(* NotificationGate: lines 297-300.                                        *)
(***************************************************************************)
GateAnyConfig(conn_id, config) == 0 # conn_id /\ 0 # config

GateWhenNotConnected(conn_id, config) ==
    /\ 0 = conn_id
    /\ BitSet(config, GATT_CLIENT_CONFIG_NOTIFICATION)

NotificationGate(conn_id, config) ==
    /\ 0 # conn_id
    /\ BitSet(config, GATT_CLIENT_CONFIG_NOTIFICATION)

(***************************************************************************)
(* thermistor_set_advertisement_data: lines 415-444.                       *)
(***************************************************************************)
\* FROM_BIT16_TO_8(val) stored into a uint8_t.
FROM_BIT16_TO_8(kind, val) ==
    IF kind \in {"u8_low", "int_low"} THEN val % 256 ELSE (val \div 256) % 256

\* sizeof(FROM_BIT16_TO_8(val)).
SizeofFROM_BIT16_TO_8(kind) ==
    IF kind \in {"u8_low", "u8_high"} THEN 1 ELSE 4

\* The elements handed to wiced_bt_ble_set_raw_advertisement_data; p_data is
\* the object the element points to.
thermistor_set_advertisement_data(kind) ==
    LET flag == BTM_BLE_GENERAL_DISCOVERABLE_FLAG + BTM_BLE_BREDR_NOT_SUPPORTED
        uuid_data == FROM_BIT16_TO_8(kind, UUID_SERVICE_ENVIRONMENTAL_SENSING)
    IN  << [advert_type |-> "BTM_BLE_ADVERT_TYPE_FLAG",
            len         |-> 1,
            p_data      |-> <<flag>>],
           [advert_type |-> "BTM_BLE_ADVERT_TYPE_NAME_COMPLETE",
            len         |-> app_gap_device_name_len,
            p_data      |-> app_gap_device_name],
           [advert_type |-> "BTM_BLE_ADVERT_TYPE_FLAG",
            len         |-> SizeofFROM_BIT16_TO_8(kind),
            p_data      |-> <<uuid_data>>] >>

(***************************************************************************)
(* thermistor_app_init: lines 335-402.                                     *)
(***************************************************************************)
\* The calls of thermistor_app_init whose result the stack decides.
Steps == {"wiced_bt_gatt_register", "wiced_bt_gatt_db_init", "wiced_init_timer",
          "wiced_start_timer", "wiced_bt_ble_set_raw_advertisement_data",
          "wiced_ota_fw_upgrade_init", "wiced_bt_start_advertisements"}

NotCalled == [s \in Steps |-> "not_called"]

\* Every combination of outcomes; wiced_start_timer has one only when it is
\* reached (line 362).
InitResults ==
    {r \in [Steps -> {"ok", "fail", "not_called"}] :
        /\ \A s \in Steps \ {"wiced_start_timer"} : r[s] # "not_called"
        /\ (r["wiced_start_timer"] = "not_called") <=> (r["wiced_init_timer"] = "fail")}

AllOk == [s \in Steps |-> "ok"]

AppInitCallsTimerFirst(r) ==
    <<"wiced_init_timer">>
    \o (IF r["wiced_init_timer"] = "ok" THEN <<"wiced_start_timer">> ELSE <<>>)
    \o <<"wiced_bt_gatt_register", "wiced_bt_gatt_db_init", "thermistor_init">>
    \o <<"wiced_bt_ble_set_raw_advertisement_data", "wiced_bt_set_pairable_mode",
         "wiced_ota_fw_upgrade_init", "wiced_bt_start_advertisements">>

AppInitCallsAbortOnFailure(r) ==
    <<"wiced_bt_gatt_register", "wiced_bt_gatt_db_init", "thermistor_init",
      "wiced_init_timer">>
    \o (IF r["wiced_init_timer"] = "ok" THEN <<"wiced_start_timer">> ELSE <<>>)
    \o <<"wiced_bt_ble_set_raw_advertisement_data">>
    \o (IF r["wiced_bt_ble_set_raw_advertisement_data"] = "ok"
        THEN <<"wiced_bt_set_pairable_mode", "wiced_ota_fw_upgrade_init",
               "wiced_bt_start_advertisements">>
        ELSE <<>>)

\* The stack and driver calls of thermistor_app_init, in order.
thermistor_app_init_calls(r) ==
    <<"wiced_bt_gatt_register", "wiced_bt_gatt_db_init", "thermistor_init",
      "wiced_init_timer">>
    \o (IF r["wiced_init_timer"] = "ok" THEN <<"wiced_start_timer">> ELSE <<>>)
    \o <<"wiced_bt_ble_set_raw_advertisement_data", "wiced_bt_set_pairable_mode",
         "wiced_ota_fw_upgrade_init", "wiced_bt_start_advertisements">>

\* The trace lines of thermistor_app_init, in order.
thermistor_app_init_log(r) ==
    <<IF r["wiced_bt_gatt_register"] = "ok" THEN "GATT status: success"
                                            ELSE "GATT status: error">>
    \o (IF r["wiced_bt_gatt_db_init"] # "ok"
        THEN <<"GATT DB Initialization not successful">> ELSE <<>>)
    \o (IF r["wiced_init_timer"] = "ok" /\ r["wiced_start_timer"] # "ok"
        THEN <<"Seconds Timer Error">> ELSE <<>>)
    \o (IF r["wiced_bt_ble_set_raw_advertisement_data"] # "ok"
        THEN <<"Raw advertisement failed">> ELSE <<>>)
    \o (IF r["wiced_ota_fw_upgrade_init"] # "ok"
        THEN <<"OTA upgrade Init failure">> ELSE <<>>)
    \o (IF r["wiced_bt_start_advertisements"] = "ok"
        THEN <<"Starting undirected BLE advertisements successful">> ELSE <<>>)

DoneWhenCalled(c, r, step) == Occurrences(c, step) > 0

\* A call takes effect when it is made and the stack reports success.
Done(c, r, step) == Occurrences(c, step) > 0 /\ r[step] = "ok"

(***************************************************************************)
(* thermistor_management_callback: lines 183-260.                          *)
(***************************************************************************)
\* BTM_ENABLED_EVT, lines 195-220, with thermistor_app_init; R is the set of
\* outcomes the stack can produce, `deliveries` how often the stack delivers
\* the event.
ManagementEnabled(R, deliveries) ==
    /\ started
    /\ enabledCount < deliveries
    /\ \E r \in R :
        LET c == thermistor_app_init_calls(r) IN
        /\ enabledCount' = enabledCount + 1
        /\ results' = r
        /\ sendStatus' = "not_called"
        /\ handler' = "BTM_ENABLED_EVT"
        /\ calls' = <<"wiced_bt_dev_read_local_addr">> \o c
        /\ sent' = <<>>
        /\ log' = <<"banner", "device name", "device address",
                    "Bluetooth Management Event">> \o thermistor_app_init_log(r)
        /\ status' = "WICED_SUCCESS"
        /\ gattRegistered' = (gattRegistered \/ Done(c, r, "wiced_bt_gatt_register"))
        /\ dbLoaded' = (dbLoaded \/ Done(c, r, "wiced_bt_gatt_db_init"))
        /\ sensorInitialized' = (sensorInitialized \/ Occurrences(c, "thermistor_init") > 0)
        /\ timerArmed' = IF Occurrences(c, "wiced_init_timer") > 0 /\ r["wiced_init_timer"] = "ok"
                         THEN Done(c, r, "wiced_start_timer")
                         ELSE timerArmed
        /\ armCount' = armCount + (IF Done(c, r, "wiced_start_timer") THEN 1 ELSE 0)
        /\ timerPeriod' = IF Done(c, r, "wiced_start_timer") THEN POLL_TIMER_IN_MS
                          ELSE timerPeriod
        /\ advData' = IF Done(c, r, "wiced_bt_ble_set_raw_advertisement_data")
                      THEN thermistor_set_advertisement_data(macroKind)
                      ELSE advData
        /\ pairable' = IF Occurrences(c, "wiced_bt_set_pairable_mode") > 0
                       THEN FALSE ELSE pairable
        /\ otaReady' = (otaReady \/ Done(c, r, "wiced_ota_fw_upgrade_init"))
        /\ advertising' = (advertising \/ Done(c, r, "wiced_bt_start_advertisements"))
        /\ UNCHANGED <<tickPc, started, macroKind, sensor, appVars, countVars>>

\* The stack reports BTM_ENABLED_EVT once, when wiced_bt_stack_init completes.
BTM_ENABLED_EVT == ManagementEnabled(InitResults, 1)

\* BTM_DISABLED_EVT, BTM_BLE_ADVERT_STATE_CHANGED_EVT, BTM_BLE_PHY_UPDATE_EVT
\* and the default branch, lines 222-256.
OtherEvents == {"BTM_DISABLED_EVT", "BTM_BLE_ADVERT_STATE_CHANGED_EVT",
                "BTM_BLE_PHY_UPDATE_EVT", "default"}

ManagementOtherStopsTimer(event) ==
    /\ started
    /\ handler' = event
    /\ calls' = IF event = "BTM_DISABLED_EVT" /\ timerArmed
                THEN <<"wiced_stop_timer">> ELSE <<>>
    /\ sent' = <<>>
    /\ log' = <<"Bluetooth Management Event">>
    /\ status' = "WICED_SUCCESS"
    /\ results' = NotCalled
    /\ sendStatus' = "not_called"
    /\ timerArmed' = IF event = "BTM_DISABLED_EVT" THEN FALSE ELSE timerArmed
    /\ UNCHANGED <<tickPc, started, macroKind, sensor, appVars, enabledCount,
                   gattRegistered, dbLoaded, sensorInitialized, armCount,
                   timerPeriod, advData, pairable, otaReady, advertising, countVars>>

ManagementOther(event) ==
    /\ started
    /\ handler' = event
    /\ calls' = <<>>
    /\ sent' = <<>>
    /\ log' = CASE event = "BTM_DISABLED_EVT" ->
                     <<"Bluetooth Management Event", "Bluetooth Disabled">>
                [] event = "BTM_BLE_ADVERT_STATE_CHANGED_EVT" ->
                     <<"Bluetooth Management Event", "Advertisement state changed">>
                [] event = "BTM_BLE_PHY_UPDATE_EVT" ->
                     <<"Bluetooth Management Event", "PHY config is updated">>
                [] OTHER -> <<>>
    /\ status' = "WICED_SUCCESS"
    /\ results' = NotCalled
    /\ sendStatus' = "not_called"
    /\ UNCHANGED <<tickPc, started, macroKind, sensor, appVars, enabledCount,
                   stackVars, countVars>>

\* application_start, lines 155-167: registers the management callback.
application_start ==
    /\ ~started
    /\ started' = TRUE
    /\ UNCHANGED <<tickPc, macroKind, sensor, appVars, enabledCount, results, sendStatus, stackVars,
                   handler, calls, sent, log, status, countVars>>

(***************************************************************************)
(* seconds_timer_temperature_cb: lines 273-321.                            *)
(***************************************************************************)
\* The trace lines of a tick, lines 281 and 297-319.
TickLog(conn_id, config) ==
    <<"Temperature",
      IF 0 # conn_id
      THEN IF BitSet(config, GATT_CLIENT_CONFIG_NOTIFICATION)
           THEN "connected, notifications enabled"
           ELSE "connected, notifications not enabled"
      ELSE "not connected">>

Request(conn_id, value) ==
    [conn_id |-> conn_id,
     handle  |-> "HDLC_ESS_TEMPERATURE_VALUE",
     len     |-> app_ess_temperature_len,
     value   |-> value]

\* What wiced_bt_gatt_send_notification can return (lines 305-308).
SendResults == {"ok", "fail"}

\* One expiry of milli_seconds_timer, but for the subscription state: one
\* thermistor_read, the values written to app_ess_temperature (`writes`, in
\* order), the notification requests, each answered by the stack.
TickCore(writes, requests) ==
    /\ timerArmed
    /\ nTicks < MaxTicks
    /\ handler' = "seconds_timer_temperature_cb"
    /\ calls' = <<"thermistor_read">>
                \o [i \in 1..Len(requests) |-> "wiced_bt_gatt_send_notification"]
    /\ app_ess_temperature' = IF writes = <<>> THEN app_ess_temperature
                              ELSE writes[Len(writes)]
    /\ sent' = requests
    /\ \E st \in SendResults :
          sendStatus' = IF requests = <<>> THEN "not_called" ELSE st
    /\ log' = TickLog(thermistor_conn_id, client_char_config)
    /\ nTicks' = nTicks + 1
    /\ nReads' = nReads + Occurrences(calls', "thermistor_read")
    /\ nStores' = nStores + Len(writes)
    /\ nSends' = nSends + Len(requests)
    /\ results' = NotCalled
    /\ UNCHANGED <<tickPc, started, macroKind, sensor, enabledCount, stackVars, status>>

\* The tick leaves thermistor_conn_id and the client configuration alone.
TickStep(writes, requests) ==
    /\ TickCore(writes, requests)
    /\ UNCHANGED <<thermistor_conn_id, client_char_config>>

TickSendsStoredBefore ==
    LET temperature == sensor
    IN  TickStep(<<Encode(temperature)>>,
                 IF NotificationGate(thermistor_conn_id, client_char_config)
                 THEN <<Request(thermistor_conn_id, app_ess_temperature)>>
                 ELSE <<>>)

TickSendsTwice ==
    LET temperature == sensor
        value == Encode(temperature)
    IN  TickStep(<<value>>,
                 IF NotificationGate(thermistor_conn_id, client_char_config)
                 THEN <<Request(thermistor_conn_id, value),
                        Request(thermistor_conn_id, value)>>
                 ELSE <<>>)

TickStoresOnlyWhenNotifying ==
    LET temperature == sensor
        value == Encode(temperature)
    IN  IF NotificationGate(thermistor_conn_id, client_char_config)
        THEN TickStep(<<value>>, <<Request(thermistor_conn_id, value)>>)
        ELSE TickStep(<<>>, <<>>)

TickBacksOffAfterFailure ==
    LET temperature == sensor
        value == Encode(temperature)
    IN  TickStep(<<value>>,
                 IF /\ NotificationGate(thermistor_conn_id, client_char_config)
                    /\ sendStatus # "fail"
                 THEN <<Request(thermistor_conn_id, value)>>
                 ELSE <<>>)

TickClearsConfigAfterSend ==
    LET temperature == sensor
        value == Encode(temperature)
        gate == NotificationGate(thermistor_conn_id, client_char_config)
    IN  /\ TickCore(<<value>>,
                    IF gate THEN <<Request(thermistor_conn_id, value)>> ELSE <<>>)
        /\ thermistor_conn_id' = thermistor_conn_id
        /\ client_char_config' = IF gate THEN 0 ELSE client_char_config

seconds_timer_temperature_cb ==
    LET temperature == sensor                   \* line 280
        value == Encode(temperature)            \* lines 289-290
    IN  TickStep(<<value>>,
                 IF NotificationGate(thermistor_conn_id, client_char_config)
                 THEN <<Request(thermistor_conn_id, value)>>
                 ELSE <<>>)

(***************************************************************************)
(* The environment: the sensor, and the GATT event handler                 *)
(* (thermistor_gatt_handler.c) that owns the subscription state.           *)
(***************************************************************************)
\* The temperature moves between two reads.
SensorChange ==
    /\ \E t \in Readings \ {sensor} : sensor' = t
    /\ UNCHANGED <<tickPc, started, macroKind, appVars, enabledCount, results, sendStatus, stackVars,
                   handler, calls, sent, log, status, countVars>>

\* A change of the subscription state by the GATT event handler.
SubscriptionChange(name, conn_id, config) ==
    /\ gattRegistered
    /\ <<conn_id, config>> # <<thermistor_conn_id, client_char_config>>
    /\ thermistor_conn_id' = conn_id
    /\ client_char_config' = config
    /\ handler' = name
    /\ calls' = <<>>
    /\ sent' = <<>>
    /\ log' = <<>>
    /\ nTicks' = 0 /\ nReads' = 0 /\ nStores' = 0 /\ nSends' = 0
    /\ results' = NotCalled
    /\ sendStatus' = "not_called"
    /\ UNCHANGED <<tickPc, started, macroKind, sensor, app_ess_temperature, enabledCount,
                   stackVars, status>>

\* A central connects.
GattConnectionUp ==
    /\ thermistor_conn_id = 0
    /\ \E id \in ConnIds : SubscriptionChange("connection_up", id, client_char_config)

\* The central disconnects; the descriptor is cleared or keeps its value.
GattConnectionDown ==
    /\ thermistor_conn_id # 0
    /\ \E config \in {0, client_char_config} :
          SubscriptionChange("connection_down", 0, config)

\* The central writes the client characteristic configuration descriptor.
GattWriteClientConfig ==
    /\ thermistor_conn_id # 0
    /\ \E config \in ConfigValues :
          SubscriptionChange("write_client_config", thermistor_conn_id, config)

Init ==
    /\ started = FALSE
    /\ macroKind \in MacroKinds
    /\ sensor \in Readings
    /\ thermistor_conn_id = 0
    /\ client_char_config = 0
    /\ app_ess_temperature = <<0, 0>>
    /\ enabledCount = 0
    /\ results = NotCalled
    /\ gattRegistered = FALSE
    /\ dbLoaded = FALSE
    /\ sensorInitialized = FALSE
    /\ timerArmed = FALSE
    /\ armCount = 0
    /\ timerPeriod = 0
    /\ advData = <<>>
    /\ pairable = TRUE
    /\ otaReady = FALSE
    /\ advertising = FALSE
    /\ handler = "none"
    /\ calls = <<>>
    /\ sent = <<>>
    /\ log = <<>>
    /\ status = "none"
    /\ sendStatus = "not_called"
    /\ tickPc = "idle"
    /\ nTicks = 0 /\ nReads = 0 /\ nStores = 0 /\ nSends = 0

Next ==
    \/ application_start
    \/ BTM_ENABLED_EVT
    \/ \E event \in OtherEvents : ManagementOther(event)
    \/ seconds_timer_temperature_cb
    \/ SensorChange
    \/ GattConnectionUp
    \/ GattConnectionDown
    \/ GattWriteClientConfig

Spec == Init /\ [][Next]_vars

(***************************************************************************)
(* The codec over the whole range of int16_t: every initialization step    *)
(* succeeds and the sensor holds any 16-bit reading.                       *)
(***************************************************************************)
InitCodec ==
    /\ started = FALSE
    /\ macroKind = "u8_high"
    /\ sensor \in Int16
    /\ thermistor_conn_id = 0
    /\ client_char_config = 0
    /\ app_ess_temperature = <<0, 0>>
    /\ enabledCount = 0
    /\ results = NotCalled
    /\ gattRegistered = FALSE
    /\ dbLoaded = FALSE
    /\ sensorInitialized = FALSE
    /\ timerArmed = FALSE
    /\ armCount = 0
    /\ timerPeriod = 0
    /\ advData = <<>>
    /\ pairable = TRUE
    /\ otaReady = FALSE
    /\ advertising = FALSE
    /\ handler = "none"
    /\ calls = <<>>
    /\ sent = <<>>
    /\ log = <<>>
    /\ status = "none"
    /\ sendStatus = "not_called"
    /\ tickPc = "idle"
    /\ nTicks = 0 /\ nReads = 0 /\ nStores = 0 /\ nSends = 0

EnabledAllOk == ManagementEnabled({AllOk}, 1)

NextCodec ==
    \/ application_start
    \/ EnabledAllOk
    \/ seconds_timer_temperature_cb

SpecCodec == InitCodec /\ [][NextCodec]_vars

(***************************************************************************)
(* A stack that delivers BTM_ENABLED_EVT more than once.  Re-initializing  *)
(* a running timer restarts it when both calls succeed, stops it when      *)
(* wiced_start_timer fails and leaves it alone when wiced_init_timer       *)
(* fails.                                                                  *)
(***************************************************************************)
EnabledRedelivered == ManagementEnabled(InitResults, MaxEnabled)

NextRedelivery ==
    \/ application_start
    \/ EnabledRedelivered
    \/ \E event \in OtherEvents : ManagementOther(event)
    \/ seconds_timer_temperature_cb

SpecRedelivery == Init /\ [][NextRedelivery]_vars

(***************************************************************************)
(* The tick taken one shared-state access at a time, for a scheduler that  *)
(* lets the GATT event handler run between two accesses of                 *)
(* seconds_timer_temperature_cb.                                           *)
(***************************************************************************)
\* Lines 280-290: read the sensor, store the encoded value.
RaceBegin ==
    /\ tickPc = "idle"
    /\ timerArmed
    /\ nTicks < MaxTicks
    /\ tickPc' = "gate"
    /\ app_ess_temperature' = Encode(sensor)
    /\ handler' = "seconds_timer_temperature_cb"
    /\ calls' = <<"thermistor_read">>
    /\ sent' = <<>>
    /\ sendStatus' = "not_called"
    /\ log' = <<"Temperature">>
    /\ results' = NotCalled
    /\ nTicks' = nTicks + 1
    /\ nReads' = nReads + 1
    /\ nStores' = nStores + 1
    /\ UNCHANGED <<started, macroKind, sensor, thermistor_conn_id, client_char_config,
                   enabledCount, stackVars, status, nSends>>

\* Line 297: the first read of thermistor_conn_id.
RaceGate ==
    /\ tickPc = "gate"
    /\ IF 0 # thermistor_conn_id
       THEN tickPc' = "config" /\ log' = log
       ELSE tickPc' = "idle" /\ log' = Append(log, "not connected")
    /\ handler' = "seconds_timer_temperature_cb"
    /\ UNCHANGED <<started, macroKind, sensor, appVars, enabledCount, results,
                   sendStatus, stackVars, calls, sent, status, countVars>>

\* Lines 299-300: the read of the client configuration.
RaceConfig ==
    /\ tickPc = "config"
    /\ IF BitSet(client_char_config, GATT_CLIENT_CONFIG_NOTIFICATION)
       THEN /\ tickPc' = "send"
            /\ log' = Append(log, "connected, notifications enabled")
       ELSE /\ tickPc' = "idle"
            /\ log' = Append(log, "connected, notifications not enabled")
    /\ handler' = "seconds_timer_temperature_cb"
    /\ UNCHANGED <<started, macroKind, sensor, appVars, enabledCount, results,
                   sendStatus, stackVars, calls, sent, status, countVars>>

\* Lines 305-308: the second read of thermistor_conn_id, as the argument of
\* the send.
RaceSend ==
    /\ tickPc = "send"
    /\ tickPc' = "idle"
    /\ sent' = Append(sent, Request(thermistor_conn_id, app_ess_temperature))
    /\ calls' = Append(calls, "wiced_bt_gatt_send_notification")
    /\ \E st \in SendResults : sendStatus' = st
    /\ handler' = "seconds_timer_temperature_cb"
    /\ nSends' = nSends + 1
    /\ UNCHANGED <<started, macroKind, sensor, appVars, enabledCount, results,
                   stackVars, log, status, nTicks, nReads, nStores>>

NextRace ==
    \/ application_start
    \/ EnabledAllOk
    \/ RaceBegin
    \/ RaceGate
    \/ RaceConfig
    \/ RaceSend
    \/ GattConnectionUp
    \/ GattConnectionDown
    \/ GattWriteClientConfig

SpecRace == Init /\ [][NextRace]_vars

(***************************************************************************)
(* A boot where every initialization step succeeds and each expiry of the  *)
(* armed periodic timer is eventually delivered to its callback.           *)
(***************************************************************************)
NextLive ==
    \/ application_start
    \/ EnabledAllOk
    \/ \E event \in OtherEvents : ManagementOther(event)
    \/ seconds_timer_temperature_cb
    \/ SensorChange
    \/ GattConnectionUp
    \/ GattConnectionDown
    \/ GattWriteClientConfig

SpecLive == Init /\ [][NextLive]_vars /\ WF_vars(seconds_timer_temperature_cb)

(***************************************************************************)
(* Properties.                                                             *)
(***************************************************************************)
\* The little-endian two's-complement bytes of a 16-bit signed x.
LittleEndian16(x) ==
    LET u == IF x < 0 THEN x + 65536 ELSE x
    IN  << u % 256, u \div 256 >>

\* This step is one run of seconds_timer_temperature_cb.
IsTick == handler' = "seconds_timer_temperature_cb" /\ nTicks' = nTicks + 1

\* The state before the step is connected with the notification bit set.
Subscribed == thermistor_conn_id # 0 /\ client_char_config \in {1, 3}

\* C1: a tick issues a notification request if and only if thermistor_conn_id
\* is not 0 and the notification bit of the client configuration is set; in
\* the three other cases it makes no request to the stack.
C1_NotifyIffGate ==
    [][IsTick =>
         /\ Subscribed =>
               /\ sent' # <<>>
               /\ Occurrences(calls', "wiced_bt_gatt_send_notification") > 0
         /\ ~Subscribed =>
               /\ sent' = <<>>
               /\ calls' = <<"thermistor_read">>]_vars

C1_Witness ==
    /\ handler = "seconds_timer_temperature_cb"
    /\ thermistor_conn_id # 0
    /\ client_char_config = 3
    /\ Len(sent) = 1

\* call `first` is made, and before call `later` whenever `later` is made.
Before(c, first, later) ==
    /\ IndexOf(c, first) > 0
    /\ IndexOf(c, later) > 0 => IndexOf(c, first) < IndexOf(c, later)

Prerequisites == {"wiced_bt_gatt_register", "wiced_bt_gatt_db_init", "thermistor_init"}

\* C2 as stated: registration, table load and sensor initialization all come
\* before the timer is armed and before advertising is started, and so the
\* timer never runs and advertising is never active in a state where the
\* sensor is not initialized or the service table is not registered.
C2_Original ==
    /\ handler = "BTM_ENABLED_EVT" =>
          \A pre \in Prerequisites :
              /\ Before(calls, pre, "wiced_start_timer")
              /\ Before(calls, pre, "wiced_bt_start_advertisements")
    /\ (timerArmed \/ advertising \/ nReads > 0) => (sensorInitialized /\ dbLoaded)

\* C2, amended: registration, table load and sensor initialization are all
\* executed before the timer is armed and before advertising is started, so
\* the timer never runs, no tick reads the sensor and advertising is never
\* active before thermistor_init has run and the registration and the table
\* load have been attempted; the table load may have failed, and then the
\* timer is armed and advertising started all the same.
C2_InitOrder ==
    /\ handler = "BTM_ENABLED_EVT" =>
          /\ \A pre \in Prerequisites :
                /\ Before(calls, pre, "wiced_start_timer")
                /\ Before(calls, pre, "wiced_bt_start_advertisements")
          /\ dbLoaded <=> results["wiced_bt_gatt_db_init"] = "ok"
          /\ timerArmed <=> results["wiced_start_timer"] = "ok"
          /\ advertising <=> results["wiced_bt_start_advertisements"] = "ok"
    /\ (timerArmed \/ advertising \/ nReads > 0) =>
          (sensorInitialized /\ enabledCount > 0)

C2_Witness ==
    /\ handler = "BTM_ENABLED_EVT"
    /\ results["wiced_bt_gatt_db_init"] = "fail"
    /\ timerArmed
    /\ advertising
    /\ sensorInitialized

\* The steps of the initialization that can fail, in program order, each with
\* the call that starts it.
FallibleSteps ==
    <<"wiced_bt_gatt_register", "wiced_bt_gatt_db_init", "wiced_init_timer",
      "wiced_bt_ble_set_raw_advertisement_data", "wiced_ota_fw_upgrade_init",
      "wiced_bt_start_advertisements">>

\* Trace lines that report a failure.
FailureLines ==
    {"GATT status: error", "GATT DB Initialization not successful",
     "Seconds Timer Error", "Raw advertisement failed", "OTA upgrade Init failure"}

LoggedFailures == {log[i] : i \in {j \in 1..Len(log) : log[j] \in FailureLines}}

OnlyAdvertisementSetFails ==
    /\ results["wiced_bt_ble_set_raw_advertisement_data"] = "fail"
    /\ \A s \in Steps \ {"wiced_bt_ble_set_raw_advertisement_data"} : results[s] = "ok"

\* C3: whatever the outcomes of the fallible steps, thermistor_app_init
\* attempts every step, in program order; when the advertisement-set step
\* fails, pairability is still disabled, the upgrade subsystem is still
\* initialized and advertising is still started, and when it is the only
\* step that fails it is the only failure in the log.
C3_NoStepAborts ==
    handler = "BTM_ENABLED_EVT" =>
        /\ \A i \in 1..Len(FallibleSteps) :
              /\ Occurrences(calls, FallibleSteps[i]) = 1
              /\ \A j \in (i+1)..Len(FallibleSteps) :
                    IndexOf(calls, FallibleSteps[i]) < IndexOf(calls, FallibleSteps[j])
        /\ results["wiced_init_timer"] = "ok" =>
              Occurrences(calls, "wiced_start_timer") = 1
        /\ results["wiced_bt_ble_set_raw_advertisement_data"] = "fail" =>
              /\ \A later \in {"wiced_bt_set_pairable_mode", "wiced_ota_fw_upgrade_init",
                               "wiced_bt_start_advertisements"} :
                    IndexOf(calls, "wiced_bt_ble_set_raw_advertisement_data")
                        < IndexOf(calls, later)
              /\ ~pairable
              /\ otaReady <=> results["wiced_ota_fw_upgrade_init"] = "ok"
              /\ advertising <=> results["wiced_bt_start_advertisements"] = "ok"
        /\ OnlyAdvertisementSetFails => LoggedFailures = {"Raw advertisement failed"}

C3_Witness ==
    /\ handler = "BTM_ENABLED_EVT"
    /\ OnlyAdvertisementSetFails
    /\ advertising
    /\ otaReady
    /\ ~pairable
    /\ advData = <<>>

\* The trace line that reports the failure of a step.
FailureLineOf(step) ==
    CASE step = "wiced_bt_gatt_register" -> "GATT status: error"
      [] step = "wiced_bt_gatt_db_init" -> "GATT DB Initialization not successful"
      [] step = "wiced_init_timer" -> "Seconds Timer Error"
      [] step = "wiced_start_timer" -> "Seconds Timer Error"
      [] step = "wiced_bt_ble_set_raw_advertisement_data" -> "Raw advertisement failed"
      [] step = "wiced_ota_fw_upgrade_init" -> "OTA upgrade Init failure"
      [] step = "wiced_bt_start_advertisements" -> "Starting advertisements failed"

\* C4: every step of the initialization that fails, the creation of the timer
\* included, leaves a line in the log that reports the failure of that step.
C4_EveryFailureLogged ==
    handler = "BTM_ENABLED_EVT" =>
        \A step \in Steps :
            results[step] = "fail" =>
                \E i \in 1..Len(log) : log[i] = FailureLineOf(step)

\* C5: the value a tick writes is 2 bytes, the low 8 bits of the reading then
\* its high 8 bits (two's complement), and decoding them as a little-endian
\* signed 16-bit number gives the reading back, for every 16-bit reading.
C5_RoundTrip ==
    handler = "seconds_timer_temperature_cb" =>
        /\ Len(app_ess_temperature) = 2
        /\ \A i \in 1..2 : app_ess_temperature[i] \in 0..255
        /\ app_ess_temperature = LittleEndian16(sensor)
        /\ Decode(app_ess_temperature) = sensor

C5_Witness ==
    /\ handler = "seconds_timer_temperature_cb"
    /\ sensor = -2350
    /\ app_ess_temperature = <<210, 246>>

\* C6: when the gate passes, the tick issues exactly one notification
\* request, for the current connection id, the characteristic value handle and
\* 2 bytes, carrying the encoding of the reading of this tick; with a reading
\* of 2350 that is [0x2E, 0x09], and nothing is sent while not connected.
C6_OneRequestFreshValue ==
    [][IsTick =>
         /\ Subscribed =>
               /\ Len(sent') = 1
               /\ Occurrences(calls', "wiced_bt_gatt_send_notification") = 1
               /\ sent'[1].conn_id = thermistor_conn_id
               /\ sent'[1].handle = "HDLC_ESS_TEMPERATURE_VALUE"
               /\ sent'[1].len = 2
               /\ sent'[1].value = LittleEndian16(sensor)
               /\ sensor = 2350 => sent'[1].value = <<46, 9>>
         /\ thermistor_conn_id = 0 => Len(sent') = 0]_vars

C6_Witness ==
    /\ handler = "seconds_timer_temperature_cb"
    /\ sensor = 2350
    /\ thermistor_conn_id = 2
    /\ Len(sent) = 1
    /\ sent[1].conn_id = 2
    /\ sent[1].value = <<46, 9>>

\* The subscription state now, unchanged since the counters were reset.
SubscribedNow == thermistor_conn_id # 0 /\ client_char_config \in {1, 3}

\* C7: over N ticks with no change of the subscription state there are
\* exactly N sensor reads and N stores of the encoded value, and N
\* notification requests if the state is subscribed, none otherwise.
C7_CountsPerTick ==
    /\ nReads = nTicks
    /\ nStores = nTicks
    /\ nSends = IF SubscribedNow THEN nTicks ELSE 0

C7_Witness ==
    /\ nTicks >= 2
    /\ SubscribedNow
    /\ nReads = nTicks
    /\ nStores = nTicks
    /\ nSends = nTicks

\* C8: every tick overwrites app_ess_temperature with the encoding of the
\* fresh reading whatever the gate decides; connected with notifications
\* off, or not connected, the value is updated and nothing is sent.
C8_StoreRegardlessOfGate ==
    [][IsTick =>
         /\ app_ess_temperature' = LittleEndian16(sensor)
         /\ ~Subscribed => sent' = <<>>]_vars

C8_Witness ==
    /\ handler = "seconds_timer_temperature_cb"
    /\ thermistor_conn_id # 0
    /\ client_char_config = 0
    /\ sensor = 2350
    /\ app_ess_temperature = <<46, 9>>
    /\ sent = <<>>

\* C9: the advertisement data handed to the stack is 3 elements typed, in
\* this order, flags, complete local name and 16-bit service identifier; the
\* flags element is 1 byte with the general-discoverable and
\* classic-not-supported bits, the name element the device name.
C9_AdvertisementElements ==
    advData # <<>> =>
        /\ Len(advData) = 3
        /\ advData[1].advert_type = "BTM_BLE_ADVERT_TYPE_FLAG"
        /\ advData[1].len = 1
        /\ advData[1].p_data = <<6>>
        /\ advData[2].advert_type = "BTM_BLE_ADVERT_TYPE_NAME_COMPLETE"
        /\ advData[2].len = app_gap_device_name_len
        /\ advData[2].p_data = app_gap_device_name
        /\ advData[3].advert_type \in {"BTM_BLE_ADVERT_TYPE_16SRV_COMPLETE",
                                       "BTM_BLE_ADVERT_TYPE_16SRV_PARTIAL"}

\* C10: the service-identifier element declares 2 bytes and its data is the
\* whole environmental sensing service UUID 0x181A, low byte first.
C10_ServiceUuidElement ==
    advData # <<>> =>
        /\ advData[3].len = 2
        /\ advData[3].p_data = <<26, 24>>

\* C11: whatever stack events arrive, BTM_ENABLED_EVT more than once
\* included, the timer is armed exactly once, with the 5000 ms period, and
\* the initialization sequence is never run a second time.
C11_ArmedOnce ==
    /\ armCount <= 1
    /\ timerArmed => timerPeriod = 5000
    /\ ~(/\ enabledCount > 1
         /\ handler = "BTM_ENABLED_EVT"
         /\ Occurrences(calls, "wiced_bt_gatt_register") > 0)

\* C12: when wiced_bt_gatt_send_notification reports a failure during a
\* tick, the tick prints a trace line for the failed delivery (a line other
\* than the temperature and the connection-state lines it always prints).
C12_SendFailureLogged ==
    (handler = "seconds_timer_temperature_cb" /\ sendStatus = "fail") =>
        \E i \in 1..Len(log) :
            log[i] \notin {"Temperature", "connected, notifications enabled"}

\* C13: a tick issues at most one notification request whatever the stack
\* answers; a failed send leaves the connection id, the notify flag, the
\* freshly stored value and the timer as they are; and the tick after a
\* failed send decides by the gate alone, sending once if subscribed.
C13_NoRetry ==
    [][IsTick =>
         /\ Len(sent') <= 1
         /\ Occurrences(calls', "wiced_bt_gatt_send_notification") <= 1
         /\ sendStatus' = "fail" =>
               /\ thermistor_conn_id' = thermistor_conn_id
               /\ client_char_config' = client_char_config
               /\ app_ess_temperature' = LittleEndian16(sensor)
               /\ timerArmed' = timerArmed
               /\ timerPeriod' = timerPeriod
               /\ armCount' = armCount
         /\ (handler = "seconds_timer_temperature_cb" /\ sendStatus = "fail") =>
               Len(sent') = IF Subscribed THEN 1 ELSE 0]_vars

C13_Witness ==
    /\ handler = "seconds_timer_temperature_cb"
    /\ sendStatus = "fail"
    /\ SubscribedNow
    /\ timerArmed
    /\ nTicks >= 2
    /\ nSends = nTicks
    /\ Len(sent) = 1

\* C14: when a disconnect falls between two accesses of a tick, the tick
\* degrades to a no-op: no notification request is ever issued with the
\* connection id 0.
C14_NeverSendsToNone ==
    \A i \in 1..Len(sent) : sent[i].conn_id # 0

\* C15: BTM_DISABLED_EVT, BTM_BLE_ADVERT_STATE_CHANGED_EVT,
\* BTM_BLE_PHY_UPDATE_EVT and any other event only trace: the connection id,
\* the notify flag, the stored value, the timer and the advertisement stay as
\* they are, no request goes to the stack or the drivers, and the callback
\* returns success; after BTM_DISABLED_EVT the timer still runs.
C15_OtherEventsLogOnly ==
    [][handler' \in OtherEvents =>
         /\ appVars' = appVars
         /\ stackVars' = stackVars
         /\ enabledCount' = enabledCount
         /\ countVars' = countVars
         /\ calls' = <<>>
         /\ sent' = <<>>
         /\ status' = "WICED_SUCCESS"
         /\ (timerArmed /\ nTicks < MaxTicks) => ENABLED seconds_timer_temperature_cb]_vars

C15_Witness ==
    /\ handler = "BTM_DISABLED_EVT"
    /\ timerArmed
    /\ advertising
    /\ thermistor_conn_id # 0
    /\ client_char_config = 1
    /\ app_ess_temperature = <<46, 9>>
    /\ log = <<"Bluetooth Management Event", "Bluetooth Disabled">>

\* C16: a tick never writes thermistor_conn_id or the client configuration;
\* of the application's state it changes only the stored 2-byte value.
C16_TickReadOnly ==
    [][IsTick =>
         /\ thermistor_conn_id' = thermistor_conn_id
         /\ client_char_config' = client_char_config
         /\ stackVars' = stackVars
         /\ enabledCount' = enabledCount
         /\ started' = started
         /\ Len(app_ess_temperature') = 2]_vars

C16_Witness ==
    /\ handler = "seconds_timer_temperature_cb"
    /\ thermistor_conn_id = 1
    /\ client_char_config = 1
    /\ sendStatus = "ok"
    /\ app_ess_temperature = <<255, 255>>

\* C17: no sensor read, store or notification request happens before
\* BTM_ENABLED_EVT is handled, and none happens when wiced_init_timer or
\* wiced_start_timer failed: ticks happen only where both succeeded.
C17_TicksOnlyWhenArmed ==
    /\ (\/ handler = "seconds_timer_temperature_cb"
        \/ nTicks > 0 \/ nReads > 0 \/ nStores > 0 \/ nSends > 0
        \/ sent # <<>>
        \/ app_ess_temperature # <<0, 0>>)
       => (enabledCount > 0 /\ timerArmed /\ armCount > 0)
    /\ (/\ handler = "BTM_ENABLED_EVT"
        /\ \/ results["wiced_init_timer"] = "fail"
           \/ results["wiced_start_timer"] = "fail")
       => (~timerArmed /\ armCount = 0)
    /\ timerArmed => (armCount = 1 /\ timerPeriod = 5000)

C17_Witness ==
    /\ enabledCount = 1
    /\ ~timerArmed
    /\ SubscribedNow
    /\ handler = "write_client_config"
    /\ nTicks = 0
    /\ app_ess_temperature = <<0, 0>>

\* C18: when BTM_ENABLED_EVT is handled with every initialization step
\* succeeding the device advertises with the 5000 ms timer armed and stays
\* so; with timer expiries delivered fairly, a state that is connected with
\* notifications enabled leads to a tick that issues a notification request
\* unless the subscription changes first, and every tick taken while
\* subscribed issues one.
C18_EventuallyNotifies ==
    /\ [](enabledCount > 0 => (advertising /\ timerArmed /\ timerPeriod = POLL_TIMER_IN_MS))
    /\ (SubscribedNow /\ nTicks < MaxTicks)
          ~> (\/ handler = "seconds_timer_temperature_cb" /\ Len(sent) = 1
              \/ ~SubscribedNow)
    /\ [][(IsTick /\ Subscribed) => Len(sent') = 1]_vars

C18_Witness ==
    /\ handler = "seconds_timer_temperature_cb"
    /\ advertising
    /\ timerArmed
    /\ SubscribedNow
    /\ nTicks = 2
    /\ nSends = 2
    /\ Len(sent) = 1

====
